---- MODULE Spec2Model ----
(***************************************************************************)
(* Credit approval backend: customers, loans, the credit score, the EMI    *)
(* calculator, the eligibility decision and loan issuance.                 *)
(*                                                                         *)
(* Money is held in cents (DecimalField(decimal_places=2)), interest rates *)
(* in hundredths of a percent (DecimalField(max_digits=5,decimal_places=2))*)
(* and dates in months since an epoch (year = month \div 12).  A Decimal   *)
(* that need not have two decimal places (the result of calculate_emi) is  *)
(* the rational [n |-> numerator, d |-> denominator] of cents in lowest    *)
(* terms; d = 0 stands for a raised decimal exception.                     *)
(***************************************************************************)
EXTENDS Integers, Sequences, FiniteSets, TLC

\* ------------------------------------------------------------------ bounds
MaxCustomers == 2
MaxLoans == 3
MaxTicks == 1
MaxFileRows == 2
MaxHistory == 6

\* ------------------------------------------------------- program constants
StartScore == 100
RatioLow == 50
RatioMid == 70
FloorMid == 1200
FloorLow == 1600
LimitMultiple == 36
Lakh == 100000

VARIABLES customers, loans, today, request, response, txn, probe

vars == <<customers, loans, today, request, response, txn, probe>>

\* ------------------------------------------------------------- arithmetic
Abs(x) == IF x < 0 THEN -x ELSE x

Sign(x) == IF x < 0 THEN -1 ELSE 1

RECURSIVE Gcd(_, _)
Gcd(a, b) == IF b = 0 THEN a ELSE Gcd(b, a % b)

RECURSIVE Pow(_, _)
Pow(b, e) == IF e = 0 THEN 1 ELSE b * Pow(b, e - 1)

\* <<quotient, remainder>> of a * b divided by q, for a, b >= 0 and
\* 0 < q < 2^24, without forming the product a * b: long multiplication over
\* the base-64 digits of b.
MulDivStep(h, low, a, b, q) ==
    <<h[1] * 64 + (a \div q) * (b % 64) + (low \div q), low % q>>

MulDivLow(h, a, b, q) == MulDivStep(h, h[2] * 64 + (a % q) * (b % 64), a, b, q)

RECURSIVE MulDivRem(_, _, _)
MulDivRem(a, b, q) ==
    IF b = 0 THEN <<0, 0>>
    ELSE MulDivLow(MulDivRem(a, b \div 64, q), a, b, q)

\* The integer nearest to quot + rem/q, ties to the even one
\* (decimal.ROUND_HALF_EVEN, the rounding of the default context).
\* Rounding with a tie going up instead of to the even neighbour.
HalfUp(quot, rem, q) == IF 2 * rem >= q THEN quot + 1 ELSE quot

HalfEven(quot, rem, q) ==
    IF 2 * rem < q THEN quot
    ELSE IF 2 * rem > q THEN quot + 1
    ELSE IF quot % 2 = 0 THEN quot ELSE quot + 1

HalfEvenOf(e, q) == HalfEven(e[1], e[2], q)

\* round(n / d) for d > 0 and any integer n.
RoundHalfEven(n, d) == Sign(n) * HalfEven(Abs(n) \div d, Abs(n) % d, d)

\* Decimal values as rationals of cents.
Dec(c) == [n |-> c, d |-> 1]

Raised == [n |-> 0, d |-> 0]

\* Decimal division a / b: raises (DivisionByZero, or InvalidOperation for
\* 0 / 0) when b = 0.
DecDiv(a, b) ==
    IF b = 0 THEN Raised
    ELSE LET g == Gcd(Abs(a), Abs(b))
         IN [n |-> Sign(b) * (a \div g), d |-> Abs(b) \div g]

\* What a DecimalField(decimal_places=2) column keeps of a Decimal:
\* value.quantize(Decimal('0.01')) in the default rounding.
StoredCents(x) == RoundHalfEven(x.n, x.d)

\* ------------------------------------------------------------------- data
\* Customer row (api/models.py); names, age and phone number play no part in
\* any decision and are left out.
Customer(monthly_salary, approved_limit, current_debt) ==
    [monthly_salary |-> monthly_salary, approved_limit |-> approved_limit,
     current_debt |-> current_debt]

\* Loan row (api/models.py); loan_id is the row's index in loans.
Loan(customer, loan_amount, tenure, interest_rate, monthly_repayment, emis_paid_on_time, start_date, end_date, loan_status) ==
    [customer |-> customer, loan_amount |-> loan_amount, tenure |-> tenure,
     interest_rate |-> interest_rate, monthly_repayment |-> monthly_repayment,
     emis_paid_on_time |-> emis_paid_on_time, start_date |-> start_date,
     end_date |-> end_date, loan_status |-> loan_status]

Year(date) == date \div 12

RECURSIVE SumSeq(_)
SumSeq(s) == IF s = <<>> THEN 0 ELSE Head(s) + SumSeq(Tail(s))

\* Loan.objects.filter(customer=customer)
LoansOf(ls, customer_id) == SelectSeq(ls, LAMBDA l : l.customer = customer_id)

ActiveOf(ls) == SelectSeq(ls, LAMBDA l : l.loan_status = "active")

SumAmount(ls) == SumSeq([i \in 1..Len(ls) |-> ls[i].loan_amount])

\* Decimal(round(Decimal(36) * monthly_salary / 100000) * 100000): round() of
\* a Decimal to an int rounds half to even.
ApprovedLimit(monthly_salary) ==
    RoundHalfEven(LimitMultiple * monthly_salary, Lakh * 100) * Lakh * 100

\* ------------------------------------------------------------ credit score
\* The score with the on-time ratio taken as 0 when there is no tenure to
\* divide by.
ScoreRatioUnguarded(customer, all_loans, current_year) ==
    LET total_emis_paid ==
            SumSeq([i \in 1..Len(all_loans) |-> all_loans[i].emis_paid_on_time])
        total_tenure == SumSeq([i \in 1..Len(all_loans) |-> all_loans[i].tenure])
        criteria1 ==
            IF 100 * total_emis_paid < RatioLow * total_tenure \/ total_tenure <= 0
            THEN 10
            ELSE IF 100 * total_emis_paid < RatioMid * total_tenure THEN 5 ELSE 0
        criteria2 == IF Len(all_loans) > 5 THEN 10
                     ELSE IF Len(all_loans) > 2 THEN 5 ELSE 0
        criteria3 ==
            IF Len(SelectSeq(all_loans,
                             LAMBDA l : Year(l.start_date) = current_year)) > 2
            THEN 8 ELSE 0
        criteria4 ==
            IF customer.approved_limit > 0
               /\ 2 * SumAmount(all_loans) > 3 * customer.approved_limit
            THEN 15 ELSE 0
        credit_score ==
            IF customer.approved_limit > 0
               /\ SumAmount(ActiveOf(all_loans)) > customer.approved_limit
            THEN 0
            ELSE StartScore - criteria1 - criteria2 - criteria3 - criteria4
    IN IF credit_score < 0 THEN 0 ELSE credit_score

\* The score with 25 instead of 15 taken off for the approved volume.
ScoreVolume25(customer, all_loans, current_year) ==
    LET total_emis_paid ==
            SumSeq([i \in 1..Len(all_loans) |-> all_loans[i].emis_paid_on_time])
        total_tenure == SumSeq([i \in 1..Len(all_loans) |-> all_loans[i].tenure])
        criteria1 ==
            IF total_tenure > 0
            THEN IF 100 * total_emis_paid < RatioLow * total_tenure THEN 10
                 ELSE IF 100 * total_emis_paid < RatioMid * total_tenure THEN 5
                 ELSE 0
            ELSE 0
        criteria2 == IF Len(all_loans) > 5 THEN 10
                     ELSE IF Len(all_loans) > 2 THEN 5 ELSE 0
        criteria3 ==
            IF Len(SelectSeq(all_loans,
                             LAMBDA l : Year(l.start_date) = current_year)) > 2
            THEN 8 ELSE 0
        criteria4 ==
            IF customer.approved_limit > 0
               /\ 2 * SumAmount(all_loans) > 3 * customer.approved_limit
            THEN 25 ELSE 0
        credit_score ==
            IF customer.approved_limit > 0
               /\ SumAmount(ActiveOf(all_loans)) > customer.approved_limit
            THEN 0
            ELSE StartScore - criteria1 - criteria2 - criteria3 - criteria4
    IN IF credit_score < 0 THEN 0 ELSE credit_score

calculate_credit_score(customer, all_loans, current_year) ==
    LET active_loans == ActiveOf(all_loans)
        total_emis_paid ==
            SumSeq([i \in 1..Len(all_loans) |-> all_loans[i].emis_paid_on_time])
        total_tenure == SumSeq([i \in 1..Len(all_loans) |-> all_loans[i].tenure])
        \* (total_emis_paid / total_tenure) * 100 < 50, < 70
        criteria1 ==
            IF total_tenure > 0
            THEN IF 100 * total_emis_paid < RatioLow * total_tenure THEN 10
                 ELSE IF 100 * total_emis_paid < RatioMid * total_tenure THEN 5
                 ELSE 0
            ELSE 0
        num_past_loans == Len(all_loans)
        criteria2 == IF num_past_loans > 5 THEN 10
                     ELSE IF num_past_loans > 2 THEN 5 ELSE 0
        loans_current_year ==
            Len(SelectSeq(all_loans, LAMBDA l : Year(l.start_date) = current_year))
        criteria3 == IF loans_current_year > 2 THEN 8 ELSE 0
        total_loan_amount_approved == SumAmount(all_loans)
        \* total > approved_limit * Decimal('1.5')
        criteria4 ==
            IF customer.approved_limit > 0
               /\ 2 * total_loan_amount_approved > 3 * customer.approved_limit
            THEN 15 ELSE 0
        total_current_loan_amount == SumAmount(active_loans)
        credit_score ==
            IF customer.approved_limit > 0
               /\ total_current_loan_amount > customer.approved_limit
            THEN 0
            ELSE StartScore - criteria1 - criteria2 - criteria3 - criteria4
    IN IF credit_score < 0 THEN 0 ELSE credit_score

\* ---------------------------------------------------------- EMI calculator
\* emi = numerator / denominator
\*     = (loan_amount * mn * F / (md * D)) / ((F - D) / D), quantized to cents,
\* for monthly_interest_rate = mn / md and pow_factor = F / D; the simple
\* loan_amount / tenure when the denominator is zero.
AmortizedEmi(loan_amount, tenure, mn, md, F, D) ==
    IF F - D = 0 THEN DecDiv(loan_amount, tenure)
    ELSE Dec(Sign(loan_amount)
             * HalfEvenOf(MulDivRem(Abs(loan_amount) * mn, F, md * (F - D)),
                          md * (F - D)))

MonthlyRateEmi(loan_amount, tenure, mn, md) ==
    AmortizedEmi(loan_amount, tenure, mn, md, Pow(md + mn, tenure), Pow(md, tenure))

\* The same quotient when pow_factor does not fit a machine integer: natural
\* numbers as sequences of base-10000 digits, lowest first, no leading zero.
RECURSIVE Big(_)
Big(n) == IF n = 0 THEN <<>> ELSE <<n % 10000>> \o Big(n \div 10000)

RECURSIVE BigTrim(_)
BigTrim(x) ==
    IF x = <<>> \/ x[Len(x)] # 0 THEN x ELSE BigTrim(SubSeq(x, 1, Len(x) - 1))

\* x * k + carry, for k and carry up to 100000.
RECURSIVE BigMulSmallCarry(_, _, _)
BigMulSmallCarry(x, k, carry) ==
    IF x = <<>> THEN Big(carry)
    ELSE <<(Head(x) * k + carry) % 10000>>
         \o BigMulSmallCarry(Tail(x), k, (Head(x) * k + carry) \div 10000)

BigMulSmall(x, k) == IF k = 0 THEN <<>> ELSE BigMulSmallCarry(x, k, 0)

RECURSIVE BigAddCarry(_, _, _)
BigAddCarry(x, y, carry) ==
    IF x = <<>> /\ y = <<>> THEN Big(carry)
    ELSE IF x = <<>> THEN BigAddCarry(<<0>>, y, carry)
    ELSE IF y = <<>> THEN BigAddCarry(x, <<0>>, carry)
    ELSE <<(Head(x) + Head(y) + carry) % 10000>>
         \o BigAddCarry(Tail(x), Tail(y), (Head(x) + Head(y) + carry) \div 10000)

\* x - y - borrow for x >= y + borrow, leading zeros not yet removed.
RECURSIVE BigSubBorrow(_, _, _)
BigSubBorrow(x, y, borrow) ==
    IF x = <<>> THEN <<>>
    ELSE IF y = <<>> THEN BigSubBorrow(x, <<0>>, borrow)
    ELSE IF Head(x) - Head(y) - borrow < 0
    THEN <<Head(x) - Head(y) - borrow + 10000>> \o BigSubBorrow(Tail(x), Tail(y), 1)
    ELSE <<Head(x) - Head(y) - borrow>> \o BigSubBorrow(Tail(x), Tail(y), 0)

BigSub(x, y) == BigTrim(BigSubBorrow(x, y, 0))

\* x < y, comparing from digit i down.
RECURSIVE BigLessFrom(_, _, _)
BigLessFrom(x, y, i) ==
    IF i = 0 THEN FALSE
    ELSE IF x[i] # y[i] THEN x[i] < y[i]
    ELSE BigLessFrom(x, y, i - 1)

BigLess(x, y) ==
    IF Len(x) # Len(y) THEN Len(x) < Len(y) ELSE BigLessFrom(x, y, Len(x))

\* x * k for any natural k of a machine integer.
RECURSIVE BigMulInt(_, _)
BigMulInt(x, k) ==
    IF k = 0 \/ x = <<>> THEN <<>>
    ELSE BigAddCarry(BigMulSmall(x, k % 10000),
                     IF k \div 10000 = 0 THEN <<>>
                     ELSE <<0>> \o BigMulInt(x, k \div 10000),
                     0)

RECURSIVE BigPow(_, _)
BigPow(b, e) == IF e = 0 THEN <<1>> ELSE BigMulSmall(BigPow(b, e - 1), b)

\* x * 10000^i
RECURSIVE BigShift(_, _)
BigShift(x, i) == IF i = 0 \/ x = <<>> THEN x ELSE <<0>> \o BigShift(x, i - 1)

\* The largest digit in lo..hi whose product with d is at most r.
RECURSIVE BigDigit(_, _, _, _)
BigDigit(r, d, lo, hi) ==
    IF lo = hi THEN lo
    ELSE IF BigLess(r, BigMulSmall(d, (lo + hi + 1) \div 2))
    THEN BigDigit(r, d, lo, (lo + hi + 1) \div 2 - 1)
    ELSE BigDigit(r, d, (lo + hi + 1) \div 2, hi)

BigDivDigit(h, d, digit) == <<h[1] * 10000 + digit, BigSub(h[2], BigMulSmall(d, digit))>>

BigDivStep(h, d) == BigDivDigit(h, d, BigDigit(h[2], d, 0, 9999))

\* <<quotient, remainder>> of n by d, for a quotient below 10000^3 that fits
\* a machine integer: long division from digit 2 down to digit i.
RECURSIVE BigDivRem(_, _, _)
BigDivRem(n, d, i) ==
    IF i > 2 THEN <<0, n>>
    ELSE BigDivStep(BigDivRem(n, d, i + 1), BigShift(d, i))

\* The quotient rounded half to even on its remainder.
BigHalfEven(e, d) ==
    IF BigLess(BigMulSmall(e[2], 2), d) THEN e[1]
    ELSE IF BigLess(d, BigMulSmall(e[2], 2)) THEN e[1] + 1
    ELSE IF e[1] % 2 = 0 THEN e[1] ELSE e[1] + 1

WideAmortizedEmi(loan_amount, mn, numerator, denominator) ==
    IF denominator = <<>> THEN Raised
    ELSE Dec(Sign(loan_amount)
             * BigHalfEven(BigDivRem(numerator, denominator, 0), denominator))

\* numerator / denominator = (|loan_amount| * mn * F) / (md * (F - D)) for
\* F = (md + mn)^tenure and D = md^tenure.
WideMonthlyRateEmi(loan_amount, tenure, mn, md) ==
    WideAmortizedEmi(loan_amount, mn,
                     BigMulInt(BigPow(md + mn, tenure), Abs(loan_amount) * mn),
                     BigMulSmall(BigSub(BigPow(md + mn, tenure), BigPow(md, tenure)), md))

\* loan_amount in cents, interest_rate in hundredths of a percent, tenure >= 0.
\* monthly_interest_rate = (interest_rate / 12) / 100 = mn / md in lowest terms,
\* pow_factor = (1 + mn/md) ** tenure.
calculate_emi(loan_amount, interest_rate, tenure) ==
    IF interest_rate = 0 THEN DecDiv(loan_amount, tenure)
    ELSE IF tenure <= 3
    THEN MonthlyRateEmi(loan_amount, tenure,
                        interest_rate \div Gcd(interest_rate, 120000),
                        120000 \div Gcd(interest_rate, 120000))
    ELSE WideMonthlyRateEmi(loan_amount, tenure,
                            interest_rate \div Gcd(interest_rate, 120000),
                            120000 \div Gcd(interest_rate, 120000))

\* ----------------------------------------------------- eligibility decision
\* Sum('monthly_repayment') over the customer's active loans.
TotalCurrentEmis(customer_loans) ==
    LET active == ActiveOf(customer_loans)
    IN SumSeq([i \in 1..Len(active) |-> active[i].monthly_repayment])

\* The gate with the salary not halved.
HardGateWholeSalary(customer, total_current_emis) ==
    /\ customer.monthly_salary > 0
    /\ total_current_emis > customer.monthly_salary

\* total_current_emis > customer.monthly_salary / Decimal('2'), for a salary
\* that is set and positive.
HardGate(customer, total_current_emis) ==
    /\ customer.monthly_salary > 0
    /\ 2 * total_current_emis > customer.monthly_salary

\* The tiers with the first boundary at 80 instead of 50.
ScoreTierAt80(credit_score, requested_interest_rate) ==
    IF credit_score > 80
    THEN [approval |-> TRUE, corrected_interest_rate |-> requested_interest_rate]
    ELSE IF 30 < credit_score /\ credit_score <= 80
    THEN [approval |-> TRUE,
          corrected_interest_rate |->
              IF requested_interest_rate < FloorMid THEN FloorMid
              ELSE requested_interest_rate]
    ELSE [approval |-> FALSE, corrected_interest_rate |-> requested_interest_rate]

\* The tiers with score 50 counted into the first tier.
ScoreTierFrom50(credit_score, requested_interest_rate) ==
    IF credit_score >= 50
    THEN [approval |-> TRUE, corrected_interest_rate |-> requested_interest_rate]
    ELSE IF 30 < credit_score
    THEN [approval |-> TRUE,
          corrected_interest_rate |->
              IF requested_interest_rate < FloorMid THEN FloorMid
              ELSE requested_interest_rate]
    ELSE IF 10 < credit_score
    THEN [approval |-> TRUE,
          corrected_interest_rate |->
              IF requested_interest_rate < FloorLow THEN FloorLow
              ELSE requested_interest_rate]
    ELSE [approval |-> FALSE, corrected_interest_rate |-> requested_interest_rate]

\* Approval and corrected rate by credit score alone.
ScoreTier(credit_score, requested_interest_rate) ==
    IF credit_score > 50
    THEN [approval |-> TRUE, corrected_interest_rate |-> requested_interest_rate]
    ELSE IF 30 < credit_score /\ credit_score <= 50
    THEN [approval |-> TRUE,
          corrected_interest_rate |->
              IF requested_interest_rate < FloorMid THEN FloorMid
              ELSE requested_interest_rate]
    ELSE IF 10 < credit_score /\ credit_score <= 30
    THEN [approval |-> TRUE,
          corrected_interest_rate |->
              IF requested_interest_rate < FloorLow THEN FloorLow
              ELSE requested_interest_rate]
    ELSE [approval |-> FALSE, corrected_interest_rate |-> requested_interest_rate]

\* The limit check of a score-approved request: "deny", "approve" (no
\* installment computed) or "emi" (approved, installment computed).
\* approved_limit is a non-null column, so "is None" never holds of a stored row.
LimitGate(customer, requested_loan_amount) ==
    IF customer.approved_limit = 0
    THEN IF requested_loan_amount > 0 THEN "deny" ELSE "approve"
    ELSE IF requested_loan_amount > customer.approved_limit THEN "deny"
    ELSE "emi"

EligibilityResult(customer_id, approval, interest_rate, corrected_interest_rate, tenure, monthly_installment) ==
    [customer_id |-> customer_id, approval |-> approval,
     interest_rate |-> interest_rate,
     corrected_interest_rate |-> corrected_interest_rate,
     tenure |-> tenure, monthly_installment |-> monthly_installment]

\* The result for a request past the hard gate, from its score tier and the
\* outcome of the limit check.
GatedResult(customer_id, tier, gate, requested_loan_amount, requested_interest_rate, requested_tenure) ==
    EligibilityResult(
        customer_id, gate # "deny", requested_interest_rate,
        tier.corrected_interest_rate, requested_tenure,
        IF gate = "emi"
        THEN calculate_emi(requested_loan_amount, tier.corrected_interest_rate,
                           requested_tenure)
        ELSE Dec(0))

TierResult(customer_id, customer, tier, requested_loan_amount, requested_interest_rate, requested_tenure) ==
    GatedResult(customer_id, tier,
                IF tier.approval THEN LimitGate(customer, requested_loan_amount)
                ELSE "deny",
                requested_loan_amount, requested_interest_rate, requested_tenure)

\* The body of get_eligibility_result once the score and the EMI total are
\* read.  A result whose monthly_installment is Raised stands for the
\* exception calculate_emi raised: the call returns nothing.
EligibilityDecision(customer_id, customer, credit_score, total_current_emis, requested_loan_amount, requested_interest_rate, requested_tenure) ==
    IF HardGate(customer, total_current_emis)
    THEN EligibilityResult(customer_id, FALSE, requested_interest_rate,
                           requested_interest_rate, requested_tenure, Dec(0))
    ELSE TierResult(customer_id, customer,
                    ScoreTier(credit_score, requested_interest_rate),
                    requested_loan_amount, requested_interest_rate,
                    requested_tenure)

get_eligibility_result(cs, ls, date, customer_id, requested_loan_amount, requested_interest_rate, requested_tenure) ==
    EligibilityDecision(
        customer_id, cs[customer_id],
        calculate_credit_score(cs[customer_id], LoansOf(ls, customer_id), Year(date)),
        TotalCurrentEmis(LoansOf(ls, customer_id)),
        requested_loan_amount, requested_interest_rate, requested_tenure)

\* ------------------------------------------------------------------ inputs
\* Request values the serializers accept (no field has a minimum): amounts of
\* -1000, 3000, 200000 and 300000 currency units, rates of 0% and 12%, a
\* tenure of 3 months, salaries of 1000 and 5000 units.
AmountSet == {-100000, 300000, 20000000, 30000000}

RateSet == {0, 1200}

TenureSet == {3}

SalarySet == {100000, 500000}

CustomerIds == 1..MaxCustomers

Requests ==
    [customer_id : CustomerIds, loan_amount : AmountSet,
     interest_rate : RateSet, tenure : TenureSet]

\* The create-loan requests driven: those at 0%, which bounds the loan
\* histories that arise.
CreateRequests == {req \in Requests : req.interest_rate = 0}

NoRequest == [customer_id |-> 0, loan_amount |-> 0, interest_rate |-> 0, tenure |-> 0]

\* ---------------------------------------------------------------- responses
NoLoanId == 0

Response(op, status, body) == [op |-> op, status |-> status, body |-> body]

NotFound(op) == Response(op, 400, [customer_id |-> "Customer not found."])

ServerError(op) == Response(op, 500, [detail |-> "decimal exception"])

\* ------------------------------------------------------------------ actions
\* The id an AutoField gives a new row: one past the largest in use.
NextCustomerId(cs) ==
    IF DOMAIN cs = {} THEN 1
    ELSE (CHOOSE m \in DOMAIN cs : \A k \in DOMAIN cs : k <= m) + 1

\* POST /register: RegisterCustomerView.create, CustomerRegistrationSerializer.create.
Register(monthly_income) ==
    LET id == NextCustomerId(customers)
        customer == Customer(monthly_income, ApprovedLimit(monthly_income), 0)
    IN /\ id <= MaxCustomers
       /\ id \notin DOMAIN customers
       /\ customers' = (id :> customer) @@ customers
       /\ response' = Response("register", 201,
                               [customer_id |-> id,
                                monthly_income |-> monthly_income,
                                approved_limit |-> customer.approved_limit])
       /\ request' = NoRequest
       /\ UNCHANGED <<loans, today, txn, probe>>

\* Response(eligibility_result, 200), or the server error of an exception.
ResultResponse(result) ==
    IF result.monthly_installment = Raised THEN ServerError("check")
    ELSE Response("check", 200, result)

\* POST /check-eligibility: CheckEligibilityView.post.
CheckEligibilityResponse(cs, ls, date, req) ==
    IF req.customer_id \notin DOMAIN cs THEN NotFound("check")
    ELSE ResultResponse(get_eligibility_result(cs, ls, date, req.customer_id,
                                               req.loan_amount, req.interest_rate,
                                               req.tenure))

CheckEligibility(req) ==
    /\ request' = req
    /\ response' = CheckEligibilityResponse(customers, loans, today, req)
    /\ UNCHANGED <<customers, loans, today, txn, probe>>

\* The approved branch with the debt overwritten instead of incremented.
IssueLoanDebtOverwritten(cs, ls, date, customer_id, customer, validated_data, eligibility_result, monthly_installment) ==
    [status |-> 201,
     loans |->
         Append(ls, Loan(customer_id, validated_data.loan_amount,
                         validated_data.tenure,
                         eligibility_result.corrected_interest_rate,
                         StoredCents(monthly_installment), 0,
                         date, date + validated_data.tenure, "active")),
     customers |->
         [cs EXCEPT ![customer_id] =
             [customer EXCEPT !.current_debt = validated_data.loan_amount]],
     body |-> [loan_id |-> Len(ls) + 1,
               customer_id |-> customer_id,
               loan_approved |-> TRUE,
               message |-> "Loan approved successfully",
               monthly_installment |-> monthly_installment]]

\* The approved branch of create once the installment is recomputed: the
\* Loan row inserted and the customer saved with the incremented debt.
\* status 500 stands for the exception calculate_emi raised.
IssueLoan(cs, ls, date, customer_id, customer, validated_data, eligibility_result, monthly_installment) ==
    IF monthly_installment = Raised
    THEN [status |-> 500, loans |-> ls, customers |-> cs, body |-> <<>>]
    ELSE [status |-> 201,
          loans |->
              Append(ls, Loan(customer_id, validated_data.loan_amount,
                              validated_data.tenure,
                              eligibility_result.corrected_interest_rate,
                              StoredCents(monthly_installment), 0,
                              date, date + validated_data.tenure, "active")),
          customers |->
              [cs EXCEPT ![customer_id] =
                  [customer EXCEPT
                      !.current_debt = @ + validated_data.loan_amount]],
          body |-> [loan_id |-> Len(ls) + 1,
                    customer_id |-> customer_id,
                    loan_approved |-> TRUE,
                    message |-> "Loan approved successfully",
                    monthly_installment |-> monthly_installment]]

\* create with the approval test left out: the loan is issued in any case.
LoanIssuanceUnchecked(cs, ls, date, customer_id, customer, validated_data, eligibility_result) ==
    IssueLoan(cs, ls, date, customer_id, customer, validated_data,
              eligibility_result,
              calculate_emi(validated_data.loan_amount,
                            eligibility_result.corrected_interest_rate,
                            validated_data.tenure))

\* create after the eligibility result is known.
LoanIssuance(cs, ls, date, customer_id, customer, validated_data, eligibility_result) ==
    IF eligibility_result.monthly_installment = Raised
    THEN [status |-> 500, loans |-> ls, customers |-> cs, body |-> <<>>]
    ELSE IF eligibility_result.approval
    THEN IssueLoan(cs, ls, date, customer_id, customer, validated_data,
                   eligibility_result,
                   calculate_emi(validated_data.loan_amount,
                                 eligibility_result.corrected_interest_rate,
                                 validated_data.tenure))
    ELSE [status |-> 200, loans |-> ls, customers |-> cs,
          body |-> [loan_id |-> NoLoanId,
                    customer_id |-> customer_id,
                    loan_approved |-> FALSE,
                    message |-> "Loan not approved based on eligibility criteria",
                    monthly_installment |-> Dec(0)]]

\* LoanEligibilityCheckSerializer.create: what it writes and what it returns,
\* [status, loans, customers, body], for the customer object loaded by validate.
create(cs, ls, date, customer_id, customer, validated_data) ==
    LoanIssuance(cs, ls, date, customer_id, customer, validated_data,
                 get_eligibility_result(cs, ls, date, customer_id,
                                        validated_data.loan_amount,
                                        validated_data.interest_rate,
                                        validated_data.tenure))

\* POST /create-loan: CreateLoanView.create, the request handled in one piece.
CreateLoan(req) ==
    /\ request' = req
    /\ IF req.customer_id \notin DOMAIN customers
       THEN /\ response' = NotFound("create")
            /\ UNCHANGED <<customers, loans, today, txn, probe>>
       ELSE \E done \in {create(customers, loans, today, req.customer_id,
                               customers[req.customer_id], req)} :
               /\ Len(done.loans) <= MaxLoans
               /\ loans' = done.loans
               /\ customers' = done.customers
               /\ response' = IF done.status = 500 THEN ServerError("create")
                              ELSE Response("create", done.status, done.body)
               /\ UNCHANGED <<today, txn, probe>>

\* A month passes (timezone.now() moves on).
Tick ==
    /\ today < 11 + MaxTicks
    /\ today' = today + 1
    /\ request' = NoRequest
    /\ response' = Response("tick", 0, <<>>)
    /\ UNCHANGED <<customers, loans, txn, probe>>

Idle == [pc |-> "idle"]

NoProbe == [credit_score |-> 0, monthly_salary |-> 0, total_current_emis |-> 0]

Init ==
    /\ customers = <<>>
    /\ loans = <<>>
    /\ today = 11
    /\ request = NoRequest
    /\ response = Response("none", 0, <<>>)
    /\ txn = Idle
    /\ probe = NoProbe

Next ==
    \/ \E monthly_income \in SalarySet : Register(monthly_income)
    \/ \E req \in Requests : CheckEligibility(req)
    \/ \E req \in CreateRequests : CreateLoan(req)
    \/ Tick

Spec == Init /\ [][Next]_vars

\* -------------------------------------------------------------- ingestion
\* Rows of the customer CSV after cleaning: customer_id 0 stands for a missing
\* or non-numeric id.
CustomerRows == [customer_id : 0..MaxCustomers, monthly_salary : SalarySet]

\* Rows of the loan CSV after cleaning: a loan of 100000 units over 12 months
\* at 12% repaid at 3000 a month, every EMI on time, approved in month 0;
\* dates_parse says whether both date strings match one of the two formats.
LoanRows ==
    [customer_id : 0..MaxCustomers, loan_id : {0, 7}, loan_amount : {10000000},
     tenure : {12}, interest_rate : {1200}, monthly_payment : {300000},
     emis_paid_on_time : {12}, date_of_approval : {0}, end_date : {12},
     dates_parse : BOOLEAN]

Files(rows) == UNION {[1..n -> rows] : n \in 1..MaxFileRows}

\* bulk_create(customers_to_create, ignore_conflicts=True): rows whose id is 0
\* are skipped, a row whose id is taken is ignored.
RECURSIVE IngestedCustomers(_, _)
IngestedCustomers(cs, file) ==
    IF file = <<>> THEN cs
    ELSE LET row == Head(file)
         IN IF row.customer_id = 0 \/ row.customer_id \in DOMAIN cs
            THEN IngestedCustomers(cs, Tail(file))
            ELSE IngestedCustomers(
                     (row.customer_id :>
                          Customer(row.monthly_salary,
                                   ApprovedLimit(row.monthly_salary), 0)) @@ cs,
                     Tail(file))

\* ingest_customer_data_task
IngestCustomerData(file) ==
    /\ customers' = IngestedCustomers(customers, file)
    /\ request' = NoRequest
    /\ response' = Response("ingest_customers", 0, <<>>)
    /\ UNCHANGED <<loans, today, txn, probe>>

\* loans_to_create: a row is skipped when its customer_id or loan_id is 0, its
\* customer does not exist or a date does not parse; every other row becomes
\* an active Loan.
RECURSIVE LoansToCreate(_, _)
LoansToCreate(cs, file) ==
    IF file = <<>> THEN <<>>
    ELSE LET row == Head(file)
         IN IF \/ row.customer_id = 0
               \/ row.loan_id = 0
               \/ row.customer_id \notin DOMAIN cs
               \/ ~row.dates_parse
            THEN LoansToCreate(cs, Tail(file))
            ELSE <<Loan(row.customer_id, row.loan_amount, row.tenure,
                        row.interest_rate, row.monthly_payment,
                        row.emis_paid_on_time, row.date_of_approval,
                        row.end_date, "active")>>
                 \o LoansToCreate(cs, Tail(file))

\* ingest_loan_data_task
IngestLoanData(file) ==
    /\ Len(loans) + Len(LoansToCreate(customers, file)) <= MaxLoans
    /\ loans' = loans \o LoansToCreate(customers, file)
    /\ request' = NoRequest
    /\ response' = Response("ingest_loans", 0, <<>>)
    /\ UNCHANGED <<customers, today, txn, probe>>

NextIngest ==
    \/ \E monthly_income \in SalarySet : Register(monthly_income)
    \/ \E req \in CreateRequests : CreateLoan(req)
    \/ \E file \in Files(CustomerRows) : IngestCustomerData(file)
    \/ \E file \in Files(LoanRows) : IngestLoanData(file)

\* Registration, create-loan and the two CSV ingestion tasks.
SpecIngest == Init /\ [][NextIngest]_vars

\* ------------------------------------------------ the write of create, stepwise
\* The approved branch of create statement by statement. customers and loans
\* are the committed rows, which is what any other connection reads; txn is
\* the request in flight: its position, the customer object validate loaded,
\* and the rows its open transaction has written and not yet committed.
TxnRequests == {req \in Requests : req.interest_rate = 1200}

\* The answer to a request whose transaction raised at position at.
DatabaseError(op, at) == Response(op, 500, [detail |-> "database error", at |-> at])

\* Loan.objects.create outside any transaction: the row is committed at once.
InsertAutocommit(ls, loan) == [loans |-> Append(ls, loan), inserted |-> <<>>]

\* Loan.objects.create inside transaction.atomic(): the row is held by the
\* open transaction, the committed rows stay as they are.
InsertInAtomic(ls, loan) == [loans |-> ls, inserted |-> <<loan>>]

\* CreateLoanView.create up to the with-statement: validation, the eligibility
\* result and the installment. A request that is not approved, or that
\* raises, is answered here.
BeginCreate(req) ==
    /\ txn.pc = "idle"
    /\ Len(loans) < MaxLoans
    /\ request' = req
    /\ IF req.customer_id \notin DOMAIN customers
       THEN /\ response' = NotFound("create")
            /\ UNCHANGED <<customers, loans, today, txn, probe>>
       ELSE \E done \in {create(customers, loans, today, req.customer_id,
                               customers[req.customer_id], req)} :
               /\ IF done.status = 201
                  THEN /\ txn' = [pc |-> "atomic",
                                  customer_id |-> req.customer_id,
                                  customer |-> customers[req.customer_id],
                                  loan |-> done.loans[Len(done.loans)],
                                  body |-> done.body,
                                  inserted |-> <<>>,
                                  saved |-> <<>>]
                       /\ response' = Response("create", 0, <<>>)
                  ELSE /\ txn' = txn
                       /\ response' = IF done.status = 500
                                      THEN ServerError("create")
                                      ELSE Response("create", done.status, done.body)
               /\ UNCHANGED <<customers, loans, today, probe>>

\* loan = Loan.objects.create(...)
AtomicInsert ==
    /\ txn.pc = "atomic"
    /\ \E written \in {InsertInAtomic(loans, txn.loan)} :
           /\ loans' = written.loans
           /\ txn' = [txn EXCEPT !.pc = "inserted", !.inserted = written.inserted]
    /\ UNCHANGED <<customers, today, request, response, probe>>

\* customer.current_debt += loan_amount; customer.save()
AtomicSave ==
    /\ txn.pc = "inserted"
    /\ txn' = [txn EXCEPT
                  !.pc = "saved",
                  !.customer = [@ EXCEPT !.current_debt = @ + txn.loan.loan_amount],
                  !.saved = <<[txn.customer EXCEPT
                                  !.current_debt = @ + txn.loan.loan_amount]>>]
    /\ UNCHANGED <<customers, loans, today, request, response, probe>>

\* The with-block is left normally: the transaction commits and the view
\* answers 201.
AtomicCommit ==
    /\ txn.pc = "saved"
    /\ loans' = loans \o txn.inserted
    /\ customers' = [customers EXCEPT ![txn.customer_id] = txn.saved[1]]
    /\ response' = Response("create", 201, txn.body)
    /\ txn' = Idle
    /\ UNCHANGED <<today, request, probe>>

\* A statement of the with-block, or the commit, raises (or the process
\* dies): the open transaction is rolled back and the request fails.
AtomicFail ==
    /\ txn.pc \in {"atomic", "inserted", "saved"}
    /\ response' = DatabaseError("create", txn.pc)
    /\ txn' = Idle
    /\ UNCHANGED <<customers, loans, today, request, probe>>

NextTxn ==
    \/ \E monthly_income \in SalarySet : Register(monthly_income)
    \/ \E req \in TxnRequests : CheckEligibility(req)
    \/ \E req \in TxnRequests : BeginCreate(req)
    \/ AtomicInsert
    \/ AtomicSave
    \/ AtomicCommit
    \/ AtomicFail

SpecTxn == Init /\ [][NextTxn]_vars

\* ------------------------------------------------ two create-loan requests
\* Two requests handled at the same time, each by its own worker with its
\* own serializer and database connection. customers and loans are the
\* committed rows; txn[p] is worker p: its position, its request, the
\* Customer object its validate loaded, and the rows its open transaction has
\* written. The customer was registered with a salary of 5000 units.
Procs == {1, 2}

RaceRequests ==
    [customer_id : {1}, loan_amount : {300000, 500000, 30000000},
     interest_rate : {1200}, tenure : {3}]

InitRace ==
    /\ customers = <<Customer(500000, ApprovedLimit(500000), 0)>>
    /\ loans = <<>>
    /\ today = 11
    /\ request = NoRequest
    /\ response = Response("none", 0, <<>>)
    /\ txn = [p \in Procs |-> Idle]
    /\ probe = NoProbe

\* serializer.is_valid: validate loads the Customer row as committed now.
RaceValidate(p, req) ==
    /\ txn[p].pc = "idle"
    /\ txn' = [txn EXCEPT ![p] = [pc |-> "validated", req |-> req,
                                  customer |-> customers[req.customer_id]]]
    /\ request' = req
    /\ response' = Response("create", 0, <<>>)
    /\ UNCHANGED <<customers, loans, today, probe>>

\* create up to the with-statement: the eligibility result from the loaded
\* customer and the loans committed now, then the installment. A request not
\* approved is answered 200.
RaceEligibility(p) ==
    /\ txn[p].pc = "validated"
    /\ \E done \in {create([customers EXCEPT ![txn[p].req.customer_id] = txn[p].customer],
                           loans, today, txn[p].req.customer_id, txn[p].customer,
                           txn[p].req)} :
           IF done.status = 201
           THEN /\ txn' = [txn EXCEPT ![p] =
                              [pc |-> "atomic", req |-> txn[p].req,
                               customer |-> txn[p].customer,
                               loan |-> done.loans[Len(done.loans)],
                               body |-> done.body]]
                /\ UNCHANGED response
           ELSE /\ txn' = [txn EXCEPT ![p] =
                              [pc |-> "done", req |-> txn[p].req,
                               status |-> done.status]]
                /\ response' = Response("create", done.status, done.body)
    /\ UNCHANGED <<customers, loans, today, request, probe>>

\* loan = Loan.objects.create(...), inside the transaction.
RaceInsert(p) ==
    /\ txn[p].pc = "atomic"
    /\ txn' = [txn EXCEPT ![p].pc = "inserted"]
    /\ UNCHANGED <<customers, loans, today, request, response, probe>>

\* customer.current_debt += loan_amount; customer.save(): the UPDATE writes
\* the fields of the loaded object and waits while another open transaction
\* holds an uncommitted write of the row.
RaceSave(p) ==
    /\ txn[p].pc = "inserted"
    /\ \A q \in Procs : txn[q].pc # "saved"
    /\ txn' = [txn EXCEPT
                  ![p].pc = "saved",
                  ![p].customer.current_debt = @ + txn[p].req.loan_amount]
    /\ UNCHANGED <<customers, loans, today, request, response, probe>>

\* The with-block is left: the transaction commits and the view answers 201.
RaceCommit(p) ==
    /\ txn[p].pc = "saved"
    /\ loans' = Append(loans, txn[p].loan)
    /\ customers' = [customers EXCEPT ![txn[p].req.customer_id] = txn[p].customer]
    /\ response' = Response("create", 201,
                            [txn[p].body EXCEPT !.loan_id = Len(loans) + 1])
    /\ txn' = [txn EXCEPT ![p] = [pc |-> "done", req |-> txn[p].req, status |-> 201]]
    /\ UNCHANGED <<today, request, probe>>

NextRace ==
    \E p \in Procs :
        \/ \E req \in RaceRequests : RaceValidate(p, req)
        \/ RaceEligibility(p)
        \/ RaceInsert(p)
        \/ RaceSave(p)
        \/ RaceCommit(p)

SpecRace == InitRace /\ [][NextRace]_vars

\* ------------------------------------------- the decision as a pure function
\* The decision of get_eligibility_result with what it reads given as input:
\* the credit score over the boundaries of its tiers, a customer without
\* salary and limit or with a salary of 10000 units (limit 400000), active
\* EMIs of 0, 5000 and 5001 units, and a request.
ProbeInputs ==
    [credit_score : {0, 10, 11, 30, 31, 45, 50, 51, 100},
     monthly_salary : {0, 1000000},
     total_current_emis : {0, 500000, 500100}]

ProbeRequests ==
    [customer_id : {1}, loan_amount : {-100000, 0, 300000, 50000000},
     interest_rate : {0, 800, 1200, 1600, 2000}, tenure : {0, 3}]

ProbeCustomer == Customer(probe.monthly_salary, ApprovedLimit(probe.monthly_salary), 0)

InitDecision ==
    /\ customers = <<>>
    /\ loans = <<>>
    /\ today = 11
    /\ request = NoRequest
    /\ response = Response("none", 0, <<>>)
    /\ txn = Idle
    /\ probe \in ProbeInputs

Decide(req) ==
    /\ request' = req
    /\ response' = ResultResponse(
           EligibilityDecision(req.customer_id, ProbeCustomer, probe.credit_score,
                               probe.total_current_emis, req.loan_amount,
                               req.interest_rate, req.tenure))
    /\ UNCHANGED <<customers, loans, today, txn, probe>>

NextDecision == \E req \in ProbeRequests : Decide(req)

SpecDecision == InitDecision /\ [][NextDecision]_vars

\* ----------------------------------------------- the score over loan histories
\* calculate_credit_score and the decision built on it, over the loan
\* histories of one customer: the rows of the Loan table are put there one
\* at a time (by whatever wrote them: create, ingestion or the admin) and the
\* customer is assessed in any of the histories this gives.
\*   a repaid loan of 400000 units from an earlier year, no EMI on time;
\*   an active loan of 3000 units of this year, no EMI on time;
\*   an active loan of 3000 units from an earlier year, every EMI on time;
\*   an active loan of 300000 units of this year, no EMI on time.
HistoryLoans ==
    {Loan(1, 40000000, 12, 1200, 3553952, 0, 0, 12, "paid"),
     Loan(1, 300000, 3, 1200, 30000, 0, 11, 14, "active"),
     Loan(1, 300000, 12, 1200, 26655, 12, 0, 12, "active"),
     Loan(1, 30000000, 12, 1200, 300000, 0, 11, 23, "active")}

AssessRequests ==
    [customer_id : {1}, loan_amount : {300000}, interest_rate : {800, 1200},
     tenure : {3}]

InitHistory ==
    /\ customers \in {<<Customer(salary, ApprovedLimit(salary), 0)>> :
                          salary \in SalarySet}
    /\ loans = <<>>
    /\ today = 11
    /\ request = NoRequest
    /\ response = Response("none", 0, <<>>)
    /\ txn = Idle
    /\ probe = NoProbe

\* One more row of the customer's loan history.
HistoryLoan(loan) ==
    /\ Len(loans) < MaxHistory
    /\ loans' = Append(loans, loan)
    /\ request' = NoRequest
    /\ response' = Response("history", 0, <<>>)
    /\ UNCHANGED <<customers, today, txn, probe>>

\* calculate_credit_score and get_eligibility_result for the customer as the
\* history stands.
Assess(req) ==
    /\ request' = req
    /\ response' =
           Response("assess", 200,
                    [credit_score |->
                         calculate_credit_score(customers[req.customer_id],
                                                LoansOf(loans, req.customer_id),
                                                Year(today)),
                     result |->
                         get_eligibility_result(customers, loans, today,
                                                req.customer_id, req.loan_amount,
                                                req.interest_rate, req.tenure)])
    /\ UNCHANGED <<customers, loans, today, txn, probe>>

NextHistory ==
    \/ \E loan \in HistoryLoans : HistoryLoan(loan)
    \/ \E req \in AssessRequests : Assess(req)

SpecHistory == InitHistory /\ [][NextHistory]_vars

\* ------------------------------------------------- the EMI calculator alone
\* calculate_emi over principals of 0.01, 0.50, 1.50, 2.50, 3000 and 100000
\* units, annual rates of 0, 8 and 12 percent and tenures of 1, 2, 3 and 12
\* months.
EmiPrincipals == {1, 50, 150, 250, 300000, 10000000}

EmiRates == {0, 800, 1200}

EmiTenures == {1, 2, 3, 12}

EmiInputs ==
    [loan_amount : EmiPrincipals, interest_rate : EmiRates, tenure : EmiTenures]

InitEmi ==
    /\ customers = <<>>
    /\ loans = <<>>
    /\ today = 11
    /\ request \in EmiInputs
    /\ response = Response("none", 0, <<>>)
    /\ txn = Idle
    /\ probe = NoProbe

ComputeEmi ==
    /\ response.op = "none"
    /\ response' =
           Response("emi", 200,
                    [monthly_installment |->
                         calculate_emi(request.loan_amount, request.interest_rate,
                                       request.tenure)])
    /\ UNCHANGED <<customers, loans, today, request, txn, probe>>

NextEmi == ComputeEmi

SpecEmi == InitEmi /\ [][NextEmi]_vars

\* ================================================================== claims
\* What the claims read off a state: the rows of one customer.
ActiveLoanIds(c) ==
    {i \in 1..Len(loans) : loans[i].customer = c /\ loans[i].loan_status = "active"}

RECURSIVE SumOver(_, _)
SumOver(ids, field) ==
    IF ids = {} THEN 0
    ELSE LET i == CHOOSE j \in ids : TRUE
         IN loans[i][field] + SumOver(ids \ {i}, field)

ActiveRepayments(c) == SumOver(ActiveLoanIds(c), "monthly_repayment")

ActivePrincipal(c) == SumOver(ActiveLoanIds(c), "loan_amount")

Checked == response.op = "check" /\ response.status = 200

\* The customer's active repayments exceed half of a positive salary.
OverHalfSalary(c) ==
    /\ customers[c].monthly_salary > 0
    /\ 2 * ActiveRepayments(c) > customers[c].monthly_salary

\* C1: an eligibility check for a customer with a positive salary whose active
\* loans' monthly repayments sum to more than half of it returns approval =
\* false, the requested rate as corrected rate and a zero installment,
\* whatever is requested.
C1_HardGateRejects ==
    (Checked /\ OverHalfSalary(request.customer_id)) =>
        /\ response.body.approval = FALSE
        /\ response.body.corrected_interest_rate = request.interest_rate
        /\ response.body.monthly_installment = Dec(0)

\* A check of a request within the limit, for a customer over half salary.
C1_Witness ==
    /\ Checked
    /\ OverHalfSalary(request.customer_id)
    /\ request.loan_amount > 0
    /\ request.loan_amount <= customers[request.customer_id].approved_limit

\* C2: past the hard gate, a decision with score > 50 keeps the requested
\* rate, one with 30 < score <= 50 has corrected rate max(requested, 12.00),
\* one with 10 < score <= 30 has max(requested, 16.00), and all three approve
\* an amount within the limit; a decision with score <= 10 rejects.
C2_ScoreTiers ==
    (/\ Checked
     /\ ~(probe.monthly_salary > 0
          /\ 2 * probe.total_current_emis > probe.monthly_salary)) =>
        LET score == probe.credit_score
            floor == IF score > 50 THEN 0
                     ELSE IF score > 30 THEN 1200 ELSE 1600
            limit == ApprovedLimit(probe.monthly_salary)
        IN IF score > 10
           THEN /\ response.body.corrected_interest_rate =
                       IF request.interest_rate < floor THEN floor
                       ELSE request.interest_rate
                /\ (limit > 0 /\ request.loan_amount <= limit) =>
                       response.body.approval = TRUE
           ELSE response.body.approval = FALSE

\* The decision for score 45 and a requested 8% within the limit: approved
\* at 12.00%.
C2_Witness ==
    /\ Checked
    /\ probe.credit_score = 45
    /\ request.interest_rate = 800
    /\ request.loan_amount = 300000
    /\ response.body.corrected_interest_rate = 1200
    /\ response.body.approval = TRUE
    /\ response.body.monthly_installment = Dec(102007)

\* C3: for a check past the hard gate with a score above 10: a zero limit and
\* a nonzero amount give approval = false; a positive limit below the amount
\* gives approval = false; every other case gives approval = true and the
\* installment calculate_emi(amount, corrected rate, tenure).
C3_LimitGate ==
    (/\ Checked
     /\ ~OverHalfSalary(request.customer_id)
     /\ calculate_credit_score(customers[request.customer_id],
                               LoansOf(loans, request.customer_id),
                               Year(today)) > 10) =>
        LET limit == customers[request.customer_id].approved_limit
        IN IF limit = 0 /\ request.loan_amount # 0
           THEN response.body.approval = FALSE
           ELSE IF limit > 0 /\ request.loan_amount > limit
           THEN response.body.approval = FALSE
           ELSE /\ response.body.approval = TRUE
                /\ response.body.monthly_installment =
                       calculate_emi(request.loan_amount,
                                     response.body.corrected_interest_rate,
                                     request.tenure)

\* The step is a create-loan call for a customer that exists.
CreateStep ==
    /\ response'.op = "create"
    /\ request'.customer_id \in DOMAIN customers

\* The eligibility result of the request of the step, in the state before it.
EligibilityBefore ==
    get_eligibility_result(customers, loans, today, request'.customer_id,
                           request'.loan_amount, request'.interest_rate,
                           request'.tenure)

\* C4: an approved create-loan inserts exactly one Loan row, for that
\* customer, active, with no EMI paid, the requested amount and tenure and the
\* corrected rate; it adds exactly loan_amount to that customer's current_debt;
\* no other Loan or Customer row changes.
C4_ApprovedCreateEffect ==
    [][(CreateStep /\ response'.status = 201) =>
        /\ response'.body.loan_approved
        /\ response'.body.loan_id = Len(loans')
        /\ Len(loans') = Len(loans) + 1
        /\ SubSeq(loans', 1, Len(loans)) = loans
        /\ loans'[Len(loans')].customer = request'.customer_id
        /\ loans'[Len(loans')].loan_status = "active"
        /\ loans'[Len(loans')].emis_paid_on_time = 0
        /\ loans'[Len(loans')].loan_amount = request'.loan_amount
        /\ loans'[Len(loans')].tenure = request'.tenure
        /\ loans'[Len(loans')].interest_rate =
               EligibilityBefore.corrected_interest_rate
        /\ DOMAIN customers' = DOMAIN customers
        /\ \A c \in DOMAIN customers :
               customers'[c] =
                   IF c = request'.customer_id
                   THEN [customers[c] EXCEPT
                            !.current_debt = @ + request'.loan_amount]
                   ELSE customers[c]]_vars

\* An approved create-loan for a customer with an earlier loan, while another
\* customer has a loan and a debt of its own.
C4_Witness ==
    /\ response.op = "create"
    /\ response.status = 201
    /\ Cardinality(ActiveLoanIds(request.customer_id)) >= 2
    /\ \E c \in DOMAIN customers :
           /\ c # request.customer_id
           /\ ActiveLoanIds(c) # {}
           /\ customers[c].current_debt # 0

\* C5: a create-loan call whose eligibility result is not approved writes
\* nothing (the Loan rows and every Customer are as before) and answers with
\* loan_id null, loan_approved false and a zero installment.
C5_RejectedCreateWritesNothing ==
    [][(CreateStep /\ ~EligibilityBefore.approval) =>
        /\ loans' = loans
        /\ customers' = customers
        /\ response'.status = 200
        /\ response'.body.loan_id = NoLoanId
        /\ response'.body.loan_approved = FALSE
        /\ response'.body.monthly_installment = Dec(0)]_vars

\* A rejected create-loan for a customer that has a loan and a debt.
C5_Witness ==
    /\ response.op = "create"
    /\ response.status = 200
    /\ ActiveLoanIds(request.customer_id) # {}
    /\ customers[request.customer_id].current_debt # 0

\* C6: after any sequence of register and create-loan calls made one at a
\* time, no customer's active loans sum to more than the approved limit.
C6_ActiveWithinLimit ==
    \A c \in DOMAIN customers : ActivePrincipal(c) <= customers[c].approved_limit

\* C7: in every state reached through registration, CSV ingestion and
\* create-loan, each customer's current_debt is the sum of loan_amount over
\* that customer's active loans.
C7_DebtIsActivePrincipal ==
    \A c \in DOMAIN customers : customers[c].current_debt = ActivePrincipal(c)

\* C8: under the requests the serializer accepts, current_debt is never
\* negative and never decreases from one state to the next.
C8_DebtNeverDecreases ==
    [][\A c \in DOMAIN customers :
          /\ customers'[c].current_debt >= 0
          /\ customers'[c].current_debt >= customers[c].current_debt]_vars

\* The customer's record and loan history are the same after the step.
SameHistory(c) ==
    /\ customers'[c] = customers[c]
    /\ LoansOf(loans', c) = LoansOf(loans, c)

\* C9: a create-loan whose write fails leaves the committed rows as they
\* were, with neither the Loan nor the debt increment; and whenever the
\* committed rows change in an issuance, exactly one Loan is appended and
\* its customer's current_debt grows by exactly its loan_amount in the same
\* step, so that no reader sees the one without the other.
C9_IssuanceAllOrNothing ==
    [][/\ (response'.op = "create" /\ response'.status = 500) =>
              (loans' = loans /\ customers' = customers)
       /\ loans' # loans =>
              /\ Len(loans') = Len(loans) + 1
              /\ SubSeq(loans', 1, Len(loans)) = loans
              /\ LET loan == loans'[Len(loans')]
                 IN customers' =
                        [customers EXCEPT
                            ![loan.customer].current_debt = @ + loan.loan_amount]
       /\ (Len(customers') = Len(customers) /\ customers' # customers) =>
              loans' # loans]_vars

\* The open transaction of a create for 3000 units failed after the Loan
\* was inserted and before the customer was saved: the request is answered
\* 500 and nothing of it is in the committed rows.
C9_Witness ==
    /\ response.op = "create"
    /\ response.status = 500
    /\ response.body.detail = "database error"
    /\ response.body.at = "inserted"
    /\ request.loan_amount = 300000
    /\ txn = Idle
    /\ loans = <<>>
    /\ \A c \in DOMAIN customers : customers[c].current_debt = 0

\* C10: check-eligibility changes no Customer and no Loan, and across any
\* step that leaves a customer's record and loan history as they are (time
\* may pass), every check for that customer returns what it returned before.
C10_CheckIsPureRead ==
    [][/\ response'.op = "check" => (customers' = customers /\ loans' = loans)
       /\ <<customers', loans', today'>> # <<customers, loans, today>> =>
              \A c \in DOMAIN customers : SameHistory(c) =>
                  \A req \in Requests : req.customer_id = c =>
                      CheckEligibilityResponse(customers', loans', today', req)
                          = CheckEligibilityResponse(customers, loans, today, req)]_vars

\* A check answered for a customer whose credit score this year is not what
\* the same history scored last year.
C10_Witness ==
    /\ Checked
    /\ response.body.approval
    /\ calculate_credit_score(customers[request.customer_id],
                              LoansOf(loans, request.customer_id), Year(today))
           # calculate_credit_score(customers[request.customer_id],
                                    LoansOf(loans, request.customer_id),
                                    Year(today) - 1)

Assessed == response.op = "assess"

\* C11: calculate_credit_score returns an integer from 0 to 100 for every
\* customer and loan history, and exactly 100 for a customer with no loans,
\* whatever the approved_limit.
C11_ScoreInRange ==
    Assessed =>
        /\ response.body.credit_score \in 0..100
        /\ loans = <<>> => response.body.credit_score = 100

\* The customer with approved_limit 0 and no loans is scored 100.
C11_Witness ==
    /\ Assessed
    /\ loans = <<>>
    /\ customers[1].approved_limit = 0
    /\ response.body.credit_score = 100

\* C16: calculate_credit_score returns 0 or a value from 57 to 100, so no
\* eligibility result falls in the tiers 10 < score <= 50, and in every
\* eligibility result corrected_interest_rate is the requested interest_rate.
C16_ScoreNeverInMiddleTiers ==
    Assessed =>
        /\ response.body.credit_score \in {0} \cup (57..100)
        /\ response.body.result.corrected_interest_rate = request.interest_rate

\* The lowest score above 0: all four deductions and no override, for a
\* request at 8% that is approved at 8%.
C16_Witness ==
    /\ Assessed
    /\ response.body.credit_score = 57
    /\ request.interest_rate = 800
    /\ response.body.result.approval = TRUE
    /\ response.body.result.corrected_interest_rate = 800


EmiComputed == response.op = "emi"

\* numerator and denominator of the installment in cents, as whole numbers:
\* P * m * f / (f - 1) = (P * mn * F) / (md * (F - D)) for m = mn / md,
\* F = (md + mn)^n and D = md^n.
EmiNumerator(P, n, mn, md) == BigMulInt(BigPow(md + mn, n), P * mn)

EmiDenominator(n, mn, md) == BigMulSmall(BigSub(BigPow(md + mn, n), BigPow(md, n)), md)

BigLeq(x, y) == ~BigLess(y, x)

\* r is a whole number of cents nearest to num / den.
NearestCents(r, num, den) ==
    /\ r >= 0
    /\ r = 0 \/ BigLeq(BigMulInt(den, 2 * r - 1), BigMulSmall(num, 2))
    /\ BigLeq(BigMulSmall(num, 2), BigMulInt(den, 2 * r + 1))

\* num / den lies half way between r and r + 1 cents.
TieAbove(r, num, den) == BigMulSmall(num, 2) = BigMulInt(den, 2 * r + 1)

\* num / den lies half way between r - 1 and r cents.
TieBelow(r, num, den) == r > 0 /\ BigMulSmall(num, 2) = BigMulInt(den, 2 * r - 1)

RoundedHalfEven(r, num, den) ==
    /\ NearestCents(r, num, den)
    /\ (TieAbove(r, num, den) \/ TieBelow(r, num, den)) => r % 2 = 0

RoundedHalfAway(r, num, den) ==
    /\ NearestCents(r, num, den)
    /\ ~TieAbove(r, num, den)

DecLeq(x, y) == x.n * y.d <= y.n * x.d

\* C13: calculate_emi does not decrease when the rate grows (from 0 on) or
\* the principal grows, tenure fixed, and does not increase when the tenure
\* grows, principal and positive rate fixed.
C13_EmiMonotone ==
    EmiComputed =>
        /\ \A a2 \in EmiRates :
               request.interest_rate <= a2 =>
                   DecLeq(response.body.monthly_installment,
                          calculate_emi(request.loan_amount, a2, request.tenure))
        /\ \A P2 \in EmiPrincipals :
               request.loan_amount <= P2 =>
                   DecLeq(response.body.monthly_installment,
                          calculate_emi(P2, request.interest_rate, request.tenure))
        /\ request.interest_rate > 0 =>
               \A n2 \in EmiTenures :
                   request.tenure <= n2 =>
                       DecLeq(calculate_emi(request.loan_amount,
                                            request.interest_rate, n2),
                              response.body.monthly_installment)

\* C14: for an approved create-loan, the monthly_repayment stored on the
\* created Loan and the monthly_installment returned are both identical to
\* the monthly_installment get_eligibility_result reports for the same
\* customer state and request.
C14_StoredEmiIsReportedEmi ==
    [][(CreateStep /\ response'.status = 201) =>
           /\ Dec(loans'[Len(loans')].monthly_repayment)
                  = EligibilityBefore.monthly_installment
           /\ response'.body.monthly_installment
                  = EligibilityBefore.monthly_installment]_vars

\* C15: once two concurrent create-loan requests for the same customer,
\* both approved, have committed, the customer's current_debt has grown by
\* the sum of the two loan_amounts.
C15_NoLostIncrement ==
    (\A p \in Procs : txn[p].pc = "done" /\ txn[p].status = 201) =>
        customers[1].current_debt
            = txn[1].req.loan_amount + txn[2].req.loan_amount

====
